---- MODULE Spec2Model ----
(***************************************************************************)
(* The workflow control loop of the agentic workflow: the graph built by   *)
(* create_workflow (plan -> execute -> reflect -> finalize) over one       *)
(* WorkflowState, with the planner, the tools and the LLM as               *)
(* nondeterministic collaborators.                                         *)
(***************************************************************************)
EXTENDS Integers, Sequences, FiniteSets, TLC

VARIABLES
    original_query,     \* WorkflowState["original_query"]
    tasks,              \* WorkflowState["tasks"], a list of Task
    iteration_count,    \* WorkflowState["iteration_count"]
    final_answer,       \* WorkflowState["final_answer"], Optional[str]
    should_continue,    \* WorkflowState["should_continue"]
    needs_replan,       \* WorkflowState["needs_replan"], absent until PLAN writes it
    node,               \* the graph node that runs next, END, or RAISED
    planner_response,   \* the LLM response the last call of PlanAgent.plan parsed
    needs_refinement,   \* reflect_node's local: what should_refine_plan returned
    refinements,        \* reflect_node's local: what suggest_refinements returned
    exception,          \* the exception that left workflow.invoke, if any
    synthesis_response, \* finalize_node's local: the LLM's synthesis, if it was asked
    adequacy_response,  \* the LLM's answer to should_refine_plan's question, read
                        \* only when the function gets as far as asking
    any_success,        \* history: some call of execute_task has returned completed
    exec_count,         \* history: exec_count[i] counts the calls of execute_task
                        \* on tasks[i]
    _tools,             \* ToolRegistry._tools, a dict: its items in insertion order
    calls               \* history: the calls made on the ToolRegistry, in order

workflow_vars ==
    <<original_query, tasks, iteration_count, final_answer, should_continue,
      needs_replan, node, planner_response, needs_refinement, refinements,
      exception, synthesis_response, adequacy_response, any_success,
      exec_count>>

registry_vars == <<_tools, calls>>

vars == <<workflow_vars, registry_vars>>

-----------------------------------------------------------------------------
(* Bounds of the model *)

\* the longest task list should_refine_plan is applied to on its own
MaxTasks == 2

\* the longest JSON array the planner's response holds
MaxPlanLen == 2

-----------------------------------------------------------------------------
(* Optional values: None, or a one-element tuple holding the value *)

None == <<>>

Some(v) == <<v>>

\* dict.get(key, default) on an Optional field of the state
GetOr(opt, default) == IF opt = None THEN default ELSE opt[1]

Range(s) == {s[i] : i \in DOMAIN s}

-----------------------------------------------------------------------------
(* Task and the tool registry *)

Task(id, description, status, tool_used) ==
    [id |-> id, description |-> description, status |-> status,
     tool_used |-> tool_used, result |-> None, error |-> None]

\* the names create_workflow registers, in registration order
RegisteredTools == <<"web_search", "calculator", "weather">>

\* a registry that returns a tool for every name
get_tool_any_name(tool_name) == tool_name = tool_name

\* ToolRegistry.get_tool: TRUE when a tool is returned, FALSE when None is
get_tool(tool_name) == tool_name \in Range(RegisteredTools)

Queries == {"q1", "q2"}

\* tool names a planner or a reflection response may name
ToolNames == {"web_search", "translate"}

-----------------------------------------------------------------------------
(* The planner's response, as json.loads sees it *)

JValue(kind, items, fields) == [kind |-> kind, items |-> items, fields |-> fields]

\* text json.loads rejects (JSONDecodeError), e.g. the client's "Error: ..." string
NotJson == JValue("invalid", <<>>, <<>>)

JNumber == JValue("number", <<>>, <<>>)

JNull == JValue("null", <<>>, <<>>)

JString == JValue("string", <<>>, <<>>)

JObject(fields) == JValue("object", <<>>, fields)

JArray(items) == JValue("array", items, <<>>)

\* what the entries of a response array may be
PlanEntries ==
    {JObject([description |-> "d", tool |-> t]) : t \in ToolNames}
    \cup {JObject([description |-> "d"]), JNumber}

PlannerResponses ==
    {NotJson, JNumber, JNull, JObject([description |-> "d", tool |-> "web_search"])}
    \cup {JArray(s) : s \in UNION {[1..n -> PlanEntries] : n \in 0..MaxPlanLen}}

\* whether enumerate(tasks_data) raises TypeError
NotIterable(v) == v.kind \in {"number", "null"}

\* the elements enumerate(tasks_data) yields: the items of an array, the keys
\* (strings) of an object
Elements(v) ==
    IF v.kind = "array" THEN v.items
    ELSE IF v.kind = "object"
         THEN [i \in 1..Cardinality(DOMAIN v.fields) |-> JString]
         ELSE <<>>

\* isinstance(task_data, dict) and "description" in task_data and "tool" in task_data
ValidEntry(e) ==
    /\ e.kind = "object"
    /\ "description" \in DOMAIN e.fields
    /\ "tool" \in DOMAIN e.fields

\* the loop of PlanAgent.plan over the first n elements
RECURSIVE TasksOf(_, _)
TasksOf(elems, n) ==
    IF n = 0 THEN <<>>
    ELSE LET rest == TasksOf(elems, n - 1)
             e == elems[n]
         IN  IF ValidEntry(e)
             THEN Append(rest, Task(n, e.fields.description, "pending", e.fields.tool))
             ELSE rest

_create_fallback_task(query) ==
    <<Task(1, "Search for information about: " \o query, "pending", "web_search")>>

\* PlanAgent.plan on a response that does not make it raise
plan(query, response) ==
    IF response.kind = "invalid" THEN _create_fallback_task(query)
    ELSE LET ts == TasksOf(Elements(response), Len(Elements(response)))
         IN  IF ts # <<>> THEN ts ELSE _create_fallback_task(query)

\* whether PlanAgent.plan raises past its except clause
plan_raises(response) == NotIterable(response)

-----------------------------------------------------------------------------
(* Strings: the str methods the agents apply to LLM responses *)

Char(s, i) == SubSeq(s, i, i)

Whitespace == {" ", "\t", "\n"}

RECURSIVE lstrip(_)
lstrip(s) ==
    IF Len(s) > 0 /\ Char(s, 1) \in Whitespace THEN lstrip(SubSeq(s, 2, Len(s))) ELSE s

RECURSIVE rstrip(_)
rstrip(s) ==
    IF Len(s) > 0 /\ Char(s, Len(s)) \in Whitespace
    THEN rstrip(SubSeq(s, 1, Len(s) - 1))
    ELSE s

\* str.strip()
strip(s) == rstrip(lstrip(s))

\* sub in s
Contains(s, sub) ==
    \E i \in 1..(Len(s) - Len(sub) + 1) : SubSeq(s, i, i + Len(sub) - 1) = sub

LowerChar(c) ==
    CASE c = "N" -> "n" [] c = "O" -> "o" [] c = "Y" -> "y" [] c = "E" -> "e"
      [] c = "S" -> "s" [] c = "U" -> "u" [] OTHER -> c

\* str.lower()
RECURSIVE lower(_)
lower(s) ==
    IF Len(s) = 0 THEN s ELSE LowerChar(Char(s, 1)) \o lower(SubSeq(s, 2, Len(s)))

\* s.split(sep) for a one-character separator: the list of the parts
RECURSIVE split(_, _)
split(s, sep) ==
    IF \E i \in 1..Len(s) : Char(s, i) = sep
    THEN LET i == CHOOSE k \in 1..Len(s) :
                    /\ Char(s, k) = sep
                    /\ \A j \in 1..(k - 1) : Char(s, j) # sep
         IN  <<SubSeq(s, 1, i - 1)>> \o split(SubSeq(s, i + 1, Len(s)), sep)
    ELSE <<s>>

-----------------------------------------------------------------------------
(* ToolAgent.execute_task *)

\* what tool.execute does: returns a dict, or raises
ToolOutcomes ==
    {[success |-> TRUE, result |-> "r"],
     [success |-> FALSE, error |-> "e"],
     [raises |-> "boom"]}

\* dict.get(key, default)
DictGet(d, key, default) == IF key \in DOMAIN d THEN d[key] ELSE default

execute_task(task, outcome) ==
    IF ~get_tool(task.tool_used)
    THEN [task EXCEPT !.status = "failed",
                      !.error = Some("Tool '" \o task.tool_used \o "' not available")]
    ELSE IF "raises" \in DOMAIN outcome
    THEN [task EXCEPT !.status = "failed",
                      !.error = Some("Execution error: " \o outcome.raises)]
    ELSE IF DictGet(outcome, "success", TRUE)
    THEN [task EXCEPT !.result = Some(DictGet(outcome, "result", "str(result)")),
                      !.status = "completed"]
    ELSE [task EXCEPT !.status = "failed",
                      !.error = Some(DictGet(outcome, "error", "Tool execution failed"))]

-----------------------------------------------------------------------------
(* ReflectionAgent *)

\* a ceiling one cycle above the source's
CeilingPlusOne == 3 + 1

\* the iteration ceiling of should_refine_plan and of reflect_node
MaxRefinements == 3

\* a failed-task rule that applies up to the ceiling
FailedRetryLimit_ceiling == MaxRefinements

\* below this count failed tasks alone make should_refine_plan return True
FailedRetryLimit == 2

\* a threshold under which the no-completed-no-pending rule never applies
EmptyRetryLimit_never == 1 - 1

\* below this count a plan with nothing completed or pending is refined
EmptyRetryLimit == 1

WithStatus(ts, status) == {i \in DOMAIN ts : ts[i].status = status}

\* the LLM's answers to the adequacy question
AdequacyResponses == {"yes", "No", "Error: timed out", "Error: not found"}

\* should_refine_plan without its iteration ceiling
should_refine_plan_no_ceiling(ts, count, response) ==
    IF WithStatus(ts, "failed") # {} /\ count < FailedRetryLimit THEN TRUE
    ELSE IF /\ WithStatus(ts, "completed") = {}
            /\ WithStatus(ts, "pending") = {}
            /\ count < EmptyRetryLimit
         THEN TRUE
    ELSE IF WithStatus(ts, "completed") # {} THEN Contains(lower(response), "no")
    ELSE FALSE

\* response is the LLM's answer to the adequacy question, read only when asked
should_refine_plan(ts, count, response) ==
    IF count >= MaxRefinements THEN FALSE
    ELSE IF WithStatus(ts, "failed") # {} /\ count < FailedRetryLimit THEN TRUE
    ELSE IF /\ WithStatus(ts, "completed") = {}
            /\ WithStatus(ts, "pending") = {}
            /\ count < EmptyRetryLimit
         THEN TRUE
    ELSE IF WithStatus(ts, "completed") # {} THEN Contains(lower(response), "no")
    ELSE FALSE

\* the LLM's answers to "suggest a simpler alternative task"
ModifyResponses == {" simpler d\n"}

\* the LLM's answers to "suggest one additional simple task"
AddResponses == {"look up x|web_search", " ask y | translate \n", "a|b|c", "none"}

Modify(task_id, new_description, new_tool) ==
    [action |-> "modify", task_id |-> task_id, new_description |-> new_description,
     new_tool |-> new_tool]

Add(description, tool) == [action |-> "add", description |-> description, tool |-> tool]

\* the loop over failed_tasks, for the first n tasks of the list
RECURSIVE ModifiesOf(_, _, _)
ModifiesOf(ts, n, responses) ==
    IF n = 0 THEN <<>>
    ELSE LET rest == ModifiesOf(ts, n - 1, responses)
         IN  IF ts[n].status = "failed"
             THEN Append(rest, Modify(ts[n].id, strip(responses[n]), ts[n].tool_used))
             ELSE rest

\* an "add" part that also suggests a task when some task is completed
AddOf_with_completed(ts, response) ==
    IF Contains(response, "|") /\ Len(split(strip(response), "|")) = 2
    THEN LET parts == split(strip(response), "|")
         IN  <<Add(strip(parts[1]), strip(parts[2]))>>
    ELSE <<>>

\* the "add" part of suggest_refinements
AddOf(ts, response) ==
    IF WithStatus(ts, "completed") = {} /\ Contains(response, "|")
                                        /\ Len(split(strip(response), "|")) = 2
    THEN LET parts == split(strip(response), "|")
         IN  <<Add(strip(parts[1]), strip(parts[2]))>>
    ELSE <<>>

\* responses[i] is the LLM's answer for task i (read for failed tasks only)
suggest_refinements(ts, responses, add_response) ==
    ModifiesOf(ts, Len(ts), responses) \o AddOf(ts, add_response)

\* the inner loop of reflect_node for a "modify": the first task with the id
FirstWithId(ts, id) ==
    IF \E i \in DOMAIN ts : ts[i].id = id
    THEN CHOOSE i \in DOMAIN ts : ts[i].id = id /\ \A j \in 1..(i - 1) : ts[j].id # id
    ELSE 0

\* one refinement, with a "modify" that binds the task to web_search
apply_refinement_rebinds(ts, r) ==
    IF r.action = "modify"
    THEN LET i == FirstWithId(ts, r.task_id)
         IN  IF i = 0 THEN ts
             ELSE [ts EXCEPT ![i].description = r.new_description,
                             ![i].status = "pending",
                             ![i].error = None,
                             ![i].tool_used = "web_search"]
    ELSE IF r.action = "add"
    THEN Append(ts, Task(Len(ts) + 1, r.description, "pending", r.tool))
    ELSE ts

\* one refinement, with an "add" that inserts the new task at the front
apply_refinement_prepend(ts, r) ==
    IF r.action = "modify"
    THEN LET i == FirstWithId(ts, r.task_id)
         IN  IF i = 0 THEN ts
             ELSE [ts EXCEPT ![i].description = r.new_description,
                             ![i].status = "pending",
                             ![i].error = None]
    ELSE IF r.action = "add"
    THEN <<Task(Len(ts) + 1, r.description, "pending", r.tool)>> \o ts
    ELSE ts

apply_refinement(ts, r) ==
    IF r.action = "modify"
    THEN LET i == FirstWithId(ts, r.task_id)
         IN  IF i = 0 THEN ts
             ELSE [ts EXCEPT ![i].description = r.new_description,
                             ![i].status = "pending",
                             ![i].error = None]
    ELSE IF r.action = "add"
    THEN Append(ts, Task(Len(ts) + 1, r.description, "pending", r.tool))
    ELSE ts

\* the loop of reflect_node over the first n refinements
RECURSIVE apply_refinements(_, _, _)
apply_refinements(ts, rs, n) ==
    IF n = 0 THEN ts ELSE apply_refinement(apply_refinements(ts, rs, n - 1), rs[n])

-----------------------------------------------------------------------------
(* finalize_node *)

ApologyMessage ==
    "I apologize, but I wasn't able to complete any tasks to answer your query. "
    \o "Please try rephrasing your question or check if the required tools are available."

\* the LLM's answers to the synthesis prompt
SynthesisResponses == {"answer", "Error: timed out"}

-----------------------------------------------------------------------------
(* The graph *)

END == "__end__"

\* no node runs any more: an exception left workflow.invoke
RAISED == "raised"

\* a router that looks at should_continue before the pending tasks
route_continue_first(ts, cont) ==
    IF cont THEN "reflect"
    ELSE IF \E i \in DOMAIN ts : ts[i].status = "pending" THEN "execute"
    ELSE "finalize"

\* should_continue, the router of the conditional edges
route(ts, cont) ==
    IF \E i \in DOMAIN ts : ts[i].status = "pending" THEN "execute"
    ELSE IF cont THEN "reflect"
    ELSE "finalize"

\* add_conditional_edges("execute", should_continue, {...})
ExecuteEdges == [execute |-> "execute", reflect |-> "reflect", finalize |-> "finalize"]

\* the reflect edges with "finalize" wired to the end of the graph
ReflectEdges_skip_finalize == [execute |-> "plan", finalize |-> "__end__"]

\* the reflect edges with "finalize" wired back to plan
ReflectEdges_all_plan == [execute |-> "plan", finalize |-> "plan"]

\* add_conditional_edges("reflect", should_continue, {...})
ReflectEdges == [execute |-> "plan", finalize |-> "finalize"]

\* the node a conditional edge leads to; a key the mapping lacks raises KeyError
follow(edges, key) == IF key \in DOMAIN edges THEN edges[key] ELSE RAISED

-----------------------------------------------------------------------------
(* ToolRegistry: a dict from tool name to tool, kept in insertion order *)

\* the most calls made on a registry on its own
MaxCalls == 3

\* the tool objects that may be registered under a name
ToolObjects == {"tool_a", "tool_b"}

\* the names tools are registered, looked up and removed under
RegistryNames == {"web_search", "calculator", "weather"}

\* the place of a key among the items of a dict, 0 when it is not a key
IndexOf(reg, name) ==
    IF \E i \in DOMAIN reg : reg[i].name = name
    THEN CHOOSE i \in DOMAIN reg : reg[i].name = name
    ELSE 0

\* an assignment d[name] = tool that moves an existing key to the end
dict_set_move_to_end(reg, name, tool) ==
    SelectSeq(reg, LAMBDA item : item.name # name) \o <<[name |-> name, tool |-> tool]>>

\* self._tools[tool.name] = tool: a new key goes to the end, an existing key
\* keeps its place and gets the new value
dict_set(reg, name, tool) ==
    IF IndexOf(reg, name) = 0
    THEN Append(reg, [name |-> name, tool |-> tool])
    ELSE [reg EXCEPT ![IndexOf(reg, name)].tool = tool]

\* del self._tools[tool_name]
dict_del(reg, name) == SelectSeq(reg, LAMBDA item : item.name # name)

\* ToolRegistry.list_tools: list(self._tools.keys())
list_tools(reg) == [i \in DOMAIN reg |-> reg[i].name]

\* ToolRegistry.get_tool: self._tools.get(tool_name), None when absent
registry_get_tool(reg, name) ==
    IF IndexOf(reg, name) = 0 THEN None ELSE Some(reg[IndexOf(reg, name)].tool)

\* the call record kept in the history
Call(op, name, tool, result) == [op |-> op, name |-> name, tool |-> tool, result |-> result]

\* ToolRegistry.register_tool(tool)
register_tool ==
    /\ Len(calls) < MaxCalls
    /\ \E name \in RegistryNames, tool \in ToolObjects :
         /\ _tools' = dict_set(_tools, name, tool)
         /\ calls' = Append(calls, Call("register_tool", name, Some(tool), None))
    /\ UNCHANGED workflow_vars

\* ToolRegistry.remove_tool(tool_name)
remove_tool ==
    /\ Len(calls) < MaxCalls
    /\ \E name \in RegistryNames :
         IF IndexOf(_tools, name) # 0
         THEN /\ _tools' = dict_del(_tools, name)
              /\ calls' = Append(calls, Call("remove_tool", name, None, Some(TRUE)))
         ELSE /\ _tools' = _tools
              /\ calls' = Append(calls, Call("remove_tool", name, None, Some(FALSE)))
    /\ UNCHANGED workflow_vars

\* ToolRegistry.clear()
clear ==
    /\ Len(calls) < MaxCalls
    /\ _tools' = <<>>
    /\ calls' = Append(calls, Call("clear", "", None, None))
    /\ UNCHANGED workflow_vars

-----------------------------------------------------------------------------
(* The graph run by workflow.invoke *)

\* the registry create_workflow builds: three register_tool calls
CreatedRegistry ==
    [k \in DOMAIN RegisteredTools |-> [name |-> RegisteredTools[k], tool |-> "tool_a"]]

Init ==
    /\ _tools = CreatedRegistry
    /\ calls = [k \in DOMAIN RegisteredTools |->
                  Call("register_tool", RegisteredTools[k], Some("tool_a"), None)]
    /\ original_query \in Queries
    /\ tasks = <<>>
    /\ iteration_count = 0
    /\ final_answer = None
    /\ should_continue = TRUE
    /\ needs_replan = None
    /\ node = "plan"
    /\ planner_response = None
    /\ needs_refinement = None
    /\ refinements = <<>>
    /\ exception = None
    /\ synthesis_response = None
    /\ adequacy_response = None
    /\ any_success = FALSE
    /\ exec_count = <<>>

\* a plan stage that also calls the planner while a task is pending
needs_planning_if_pending(ts, replan) ==
    ts = <<>> \/ GetOr(replan, FALSE) \/ WithStatus(ts, "pending") # {}

\* a plan stage that calls the planner on every entry
needs_planning_always(ts, replan) == ts = ts /\ replan = replan

\* if not state["tasks"] or state.get("needs_replan", False)
needs_planning(ts, replan) == ts = <<>> \/ GetOr(replan, FALSE)

plan_node ==
    /\ node = "plan"
    /\ UNCHANGED registry_vars
    /\ IF needs_planning(tasks, needs_replan)
       THEN \E response \in PlannerResponses :
              /\ planner_response' = Some(response)
              /\ IF plan_raises(response)
                 THEN /\ node' = RAISED
                      /\ exception' = Some("TypeError")
                      /\ UNCHANGED <<tasks, needs_replan, exec_count>>
                 ELSE /\ tasks' = plan(original_query, response)
                      /\ exec_count' = [i \in DOMAIN tasks' |-> 0]
                      /\ needs_replan' = Some(FALSE)
                      /\ node' = "execute"
                      /\ UNCHANGED exception
       ELSE /\ node' = "execute"
            /\ UNCHANGED <<tasks, needs_replan, planner_response, exception,
                           exec_count>>
    /\ UNCHANGED <<original_query, iteration_count, final_answer, should_continue,
                   needs_refinement, refinements, synthesis_response,
                   adequacy_response, any_success>>

\* the first pending task of the list, 0 when there is none
FirstPending(ts) ==
    IF WithStatus(ts, "pending") = {} THEN 0
    ELSE CHOOSE i \in WithStatus(ts, "pending") : \A j \in WithStatus(ts, "pending") : i <= j

\* the loop of execute_node without its break: every pending task is executed
execute_tasks_no_break(ts, outcome) ==
    [i \in DOMAIN ts |->
        IF ts[i].status = "pending" THEN execute_task(ts[i], outcome) ELSE ts[i]]

\* the loop of execute_node: the first pending task is executed
execute_tasks(ts, outcome) ==
    LET i == FirstPending(ts)
    IN  IF i = 0 THEN ts ELSE [ts EXCEPT ![i] = execute_task(ts[i], outcome)]

execute_node ==
    /\ node = "execute"
    /\ UNCHANGED registry_vars
    /\ \E outcome \in ToolOutcomes :
         /\ tasks' = execute_tasks(tasks, outcome)
         /\ node' = follow(ExecuteEdges, route(tasks', should_continue))
    /\ exception' = IF node' = RAISED THEN Some("KeyError") ELSE exception
    /\ LET i == FirstPending(tasks)
       IN  /\ any_success' = (any_success \/ (i # 0 /\ tasks'[i].status = "completed"))
           /\ exec_count' = IF i = 0 THEN exec_count
                            ELSE [exec_count EXCEPT ![i] = @ + 1]
    /\ UNCHANGED <<original_query, iteration_count, final_answer, should_continue,
                   needs_replan, planner_response, needs_refinement, refinements,
                   synthesis_response, adequacy_response>>

reflect_node ==
    /\ node = "reflect"
    /\ UNCHANGED registry_vars
    /\ \E response \in AdequacyResponses :
         /\ adequacy_response' = Some(response)
         /\ needs_refinement' = Some(should_refine_plan(tasks, iteration_count, response))
    /\ IF needs_refinement'[1] /\ iteration_count < MaxRefinements
       THEN /\ \E responses \in [DOMAIN tasks -> ModifyResponses] :
               \E add_response \in AddResponses :
                 refinements' = suggest_refinements(tasks, responses, add_response)
            /\ tasks' = apply_refinements(tasks, refinements', Len(refinements'))
            /\ iteration_count' = iteration_count + 1
            /\ should_continue' = TRUE
       ELSE /\ should_continue' = FALSE
            /\ UNCHANGED <<tasks, iteration_count, refinements>>
    /\ node' = follow(ReflectEdges, route(tasks', should_continue'))
    /\ exception' = IF node' = RAISED THEN Some("KeyError") ELSE exception
    /\ exec_count' = exec_count \o [i \in 1..(Len(tasks') - Len(tasks)) |-> 0]
    /\ UNCHANGED <<original_query, final_answer, needs_replan, planner_response,
                   synthesis_response, any_success>>

\* a finalize that asks the LLM whenever there is any task at all
asks_synthesis_any_task(ts) == ts # <<>>

\* if completed_tasks: (the LLM is asked for the synthesis)
asks_synthesis(ts) == WithStatus(ts, "completed") # {}

\* the body of finalize_node: what it computes from the state it is given
finalize_body ==
    /\ IF asks_synthesis(tasks)
       THEN \E response \in SynthesisResponses :
              /\ synthesis_response' = Some(response)
              /\ final_answer' = Some(response)
       ELSE /\ synthesis_response' = None
            /\ final_answer' = Some(ApologyMessage)

finalize_node ==
    /\ node = "finalize"
    /\ UNCHANGED registry_vars
    /\ finalize_body
    /\ node' = END
    /\ UNCHANGED <<original_query, tasks, iteration_count, should_continue,
                   needs_replan, planner_response, needs_refinement, refinements,
                   exception, adequacy_response, any_success, exec_count>>

Next == plan_node \/ execute_node \/ reflect_node \/ finalize_node

Spec == Init /\ [][Next]_vars

\* the graph runs a node whenever one is due: workflow.invoke loops until END
FairSpec == Spec /\ WF_vars(Next)

\* finalize_node called again on the state it returned
finalize_again ==
    /\ node = END
    /\ UNCHANGED registry_vars
    /\ finalize_body
    /\ node' = END
    /\ UNCHANGED <<original_query, tasks, iteration_count, should_continue,
                   needs_replan, planner_response, needs_refinement, refinements,
                   exception, adequacy_response, any_success, exec_count>>

\* the workflow, followed by further calls of finalize_node on its result
RefinalizeSpec == Init /\ [][Next \/ finalize_again]_vars

-----------------------------------------------------------------------------
(* A ToolRegistry used on its own, from ToolRegistry() on *)

RegistryInit ==
    /\ _tools = <<>>
    /\ calls = <<>>
    /\ original_query = "q1"
    /\ tasks = <<>>
    /\ iteration_count = 0
    /\ final_answer = None
    /\ should_continue = TRUE
    /\ needs_replan = None
    /\ node = "registry"
    /\ planner_response = None
    /\ needs_refinement = None
    /\ refinements = <<>>
    /\ exception = None
    /\ synthesis_response = None
    /\ adequacy_response = None
    /\ any_success = FALSE
    /\ exec_count = <<>>

RegistryNext == register_tool \/ remove_tool \/ clear

RegistrySpec == RegistryInit /\ [][RegistryNext]_vars

-----------------------------------------------------------------------------
(* ReflectionAgent.should_refine_plan applied on its own to a WorkflowState *)

\* Task.status
Statuses == {"pending", "completed", "failed"}

\* a task as the workflow leaves it in the given status
TaskInStatus(id, status) ==
    [Task(id, "d", status, "web_search") EXCEPT
        !.result = IF status = "completed" THEN Some("r") ELSE None,
        !.error = IF status = "failed" THEN Some("e") ELSE None]

\* the task lists of at most MaxTasks tasks, ids as the planner numbers them
TaskLists ==
    UNION {{[i \in 1..n |-> TaskInStatus(i, st[i])] : st \in [1..n -> Statuses]}
             : n \in 0..MaxTasks}

UnitInit ==
    /\ _tools = CreatedRegistry
    /\ calls = <<>>
    /\ original_query \in Queries
    /\ tasks \in TaskLists
    /\ iteration_count \in 0..MaxRefinements
    /\ final_answer = None
    /\ should_continue = TRUE
    /\ needs_replan = Some(FALSE)
    /\ node = "unit"
    /\ planner_response = None
    /\ needs_refinement = None
    /\ refinements = <<>>
    /\ exception = None
    /\ synthesis_response = None
    /\ adequacy_response = None
    /\ any_success = (\E i \in DOMAIN tasks : tasks[i].status = "completed")
    /\ exec_count = [i \in DOMAIN tasks |-> IF tasks[i].status = "pending" THEN 0 ELSE 1]

\* needs_refinement = reflection_agent.should_refine_plan(state)
unit_should_refine_plan ==
    /\ node = "unit"
    /\ UNCHANGED registry_vars
    /\ \E response \in AdequacyResponses :
         /\ adequacy_response' = Some(response)
         /\ needs_refinement' = Some(should_refine_plan(tasks, iteration_count, response))
    /\ node' = "unit_done"
    /\ UNCHANGED <<original_query, tasks, iteration_count, final_answer, should_continue,
                   needs_replan, planner_response, refinements, exception,
                   synthesis_response, any_success, exec_count>>

UnitSpec == UnitInit /\ [][unit_should_refine_plan]_vars

-----------------------------------------------------------------------------
(* Helpers of the properties *)


HasPending(ts) == \E i \in DOMAIN ts : ts[i].status = "pending"

\* index i holds the first pending task of ts
IsFirstPending(ts, i) ==
    /\ i \in DOMAIN ts
    /\ ts[i].status = "pending"
    /\ \A j \in 1..(i - 1) : ts[j].status # "pending"

\* the task list is the single fallback task for the query
IsFallback(ts, query) ==
    /\ Len(ts) = 1
    /\ ts[1].id = 1
    /\ ts[1].status = "pending"
    /\ ts[1].tool_used = "web_search"
    /\ Contains(ts[1].description, query)

\* the planner's response holds no valid task: unparsable text, or an array or
\* object none of whose elements is a task object
NoValidTask(response) ==
    /\ ~NotIterable(response)
    /\ \A i \in DOMAIN Elements(response) : ~ValidEntry(Elements(response)[i])

-----------------------------------------------------------------------------
(* C1 .. C10 *)

\* C1: every run reaches END (DONE) after finitely many steps: no run loops
\* forever, gets stuck in a non-terminal stage or aborts before finalize ran.
C1_ReachesDone == <>(node = END)

\* C2: iteration_count stays within 0..3; entered with iteration_count >= 3,
\* should_refine_plan returns False, and REFLECT neither increments the count
\* nor loops back to plan.
C2_IterationCeiling ==
    /\ [](iteration_count \in 0..3)
    /\ [][node = "reflect" /\ iteration_count >= 3 =>
            /\ needs_refinement' = Some(FALSE)
            /\ iteration_count' = iteration_count
            /\ node' # "plan"]_vars

\* C2 witness: REFLECT ran with the count at the ceiling and declined to refine
C2_Witness ==
    /\ iteration_count = 3
    /\ needs_refinement = Some(FALSE)
    /\ node = "finalize"

\* C3: whenever REFLECT decides to refine (should_refine_plan returned True and
\* iteration_count < 3) it applies all the refinement actions, increments
\* iteration_count by exactly 1, sets should_continue and plan runs next.
C3_RefineLoopsToPlan ==
    [][node = "reflect" /\ needs_refinement' = Some(TRUE) /\ iteration_count < 3 =>
         /\ Len(tasks') =
              Len(tasks) + Cardinality({k \in DOMAIN refinements' :
                                          refinements'[k].action = "add"})
         /\ \A k \in DOMAIN refinements' :
              refinements'[k].action = "modify" =>
                \E i \in DOMAIN tasks :
                    /\ tasks[i].id = refinements'[k].task_id
                    /\ tasks'[i].status = "pending"
                    /\ tasks'[i].error = None
         /\ iteration_count' = iteration_count + 1
         /\ should_continue' = TRUE
         /\ node' = "plan"]_vars

\* C4: the task field invariant: pending has neither result nor error,
\* completed has a result and no error, failed has an error and no result.
C4_TaskFieldInvariant ==
    \A i \in DOMAIN tasks :
        /\ tasks[i].status = "pending" =>
             tasks[i].result = None /\ tasks[i].error = None
        /\ tasks[i].status = "completed" =>
             tasks[i].result # None /\ tasks[i].error = None
        /\ tasks[i].status = "failed" =>
             tasks[i].error # None /\ tasks[i].result = None

\* C5: no two tasks of the task list have the same id.
C5_UniqueIds ==
    \A i, j \in DOMAIN tasks : i # j => tasks[i].id # tasks[j].id

\* C6: after every PLAN step the task list is non-empty and holds a pending
\* task; when the planner yielded no valid task it is exactly the fallback task.
C6_PlanLeavesPendingTask ==
    [][node = "plan" =>
         /\ tasks' # <<>>
         /\ HasPending(tasks')
         /\ (planner_response' # planner_response
             /\ planner_response'[1].kind \in {"invalid", "array"}
             /\ NoValidTask(planner_response'[1])
               => IsFallback(tasks', original_query))]_vars

\* C7: a planner failure never surfaces: whatever the class of the response
\* text, PLAN raises nothing, substitutes the fallback task when the response
\* holds no task, and execute runs next.
C7_PlannerFailureNeverSurfaces ==
    [][node = "plan" /\ planner_response' # planner_response =>
         /\ exception' = None
         /\ node' = "execute"
         /\ (planner_response'[1].kind # "array"
               => IsFallback(tasks', original_query))]_vars

\* C8: an EXECUTE step with a pending task executes exactly the first pending
\* task, which ends completed or failed; every other task, the length of the
\* list and the other fields of the state are unchanged.
C8_ExecuteOneTask ==
    [][node = "execute" /\ HasPending(tasks) =>
         /\ Len(tasks') = Len(tasks)
         /\ \A i \in DOMAIN tasks :
              IF IsFirstPending(tasks, i)
              THEN /\ tasks'[i].status \in {"completed", "failed"}
                   /\ tasks'[i].id = tasks[i].id
                   /\ tasks'[i].description = tasks[i].description
                   /\ tasks'[i].tool_used = tasks[i].tool_used
              ELSE tasks'[i] = tasks[i]
         /\ UNCHANGED <<iteration_count, should_continue, needs_replan,
                        original_query, final_answer>>]_vars

\* C8 witness: an EXECUTE step has executed a task that was not at the head of
\* the list while a later task is still pending
C8_Witness ==
    /\ node = "execute"
    /\ Len(tasks) >= 3
    /\ tasks[1].status = "completed"
    /\ tasks[2].status = "failed"
    /\ tasks[3].status = "pending"
    /\ iteration_count = 1

\* C9: after every EXECUTE step the next node is execute if a task is pending,
\* else reflect if should_continue, else finalize; plan is always followed by
\* execute.
C9_Routing ==
    [][/\ node = "execute" =>
            node' = IF HasPending(tasks') THEN "execute"
                    ELSE IF should_continue' THEN "reflect"
                    ELSE "finalize"
       /\ node = "plan" => node' = "execute"]_vars

\* C10: reflect and finalize are entered only with no task pending, in the
\* terminal state every task is completed or failed, and every status is one
\* of pending, completed, failed.
C10_NoPendingPastExecute ==
    /\ node \in {"reflect", "finalize", END} => ~HasPending(tasks)
    /\ node = END => \A i \in DOMAIN tasks : tasks[i].status \in {"completed", "failed"}
    /\ \A i \in DOMAIN tasks : tasks[i].status \in Statuses

\* C10 witness: the terminal state, reached through REFLECT, with a completed
\* and a failed task
C10_Witness ==
    /\ node = END
    /\ needs_refinement = Some(FALSE)
    /\ \E i \in DOMAIN tasks : tasks[i].status = "completed"
    /\ \E i \in DOMAIN tasks : tasks[i].status = "failed"

-----------------------------------------------------------------------------
(* C11 .. C20 *)

\* C11: whenever REFLECT does not refine (should_refine_plan returned False,
\* also because of the ceiling) it sets should_continue = False, leaves tasks
\* and iteration_count unchanged, and finalize runs next.
C11_NoRefineFinalizes ==
    [][node = "reflect" /\ needs_refinement' = Some(FALSE) =>
         /\ should_continue' = FALSE
         /\ tasks' = tasks
         /\ iteration_count' = iteration_count
         /\ node' = "finalize"]_vars

\* C11 witness: REFLECT declined to refine below the ceiling, with a failed
\* task left, and finalize is next
C11_Witness ==
    /\ node = "finalize"
    /\ needs_refinement = Some(FALSE)
    /\ should_continue = FALSE
    /\ iteration_count < 3
    /\ \E i \in DOMAIN tasks : tasks[i].status = "failed"

\* the "modify" refinements of a refinement list that name the id
ModifiesFor(rs, id) ==
    {k \in DOMAIN rs : rs[k].action = "modify" /\ rs[k].task_id = id}

\* C12: a modify(task_id, new_description) refinement changes the task with
\* that id and nothing else: in a refining REFLECT step every task whose id
\* is named by a modify gets that description, status pending and no error
\* and keeps its id and tool_used; every other task is unchanged.
C12_ModifyChangesItsTask ==
    [][node = "reflect" /\ needs_refinement' = Some(TRUE) =>
         \A i \in DOMAIN tasks :
            LET ms == ModifiesFor(refinements', tasks[i].id)
            IN  IF ms = {}
                THEN tasks'[i] = tasks[i]
                ELSE /\ \E k \in ms :
                          tasks'[i].description = refinements'[k].new_description
                     /\ tasks'[i].status = "pending"
                     /\ tasks'[i].error = None
                     /\ tasks'[i].id = tasks[i].id
                     /\ tasks'[i].tool_used = tasks[i].tool_used]_vars

\* C13: tasks are never deleted or reordered: once the first PLAN step has
\* produced the list, every step keeps each task at its position with its
\* id, so the length never decreases and new tasks appear only at the end.
C13_TasksOnlyAppended ==
    [][tasks # <<>> =>
         /\ Len(tasks') >= Len(tasks)
         /\ \A i \in DOMAIN tasks : tasks'[i].id = tasks[i].id]_vars

\* C13 witness: a REFLECT step appended a task behind the planned ones and
\* PLAN was entered again
C13_Witness ==
    /\ node = "execute"
    /\ iteration_count >= 1
    /\ refinements # <<>>
    /\ refinements[Len(refinements)].action = "add"
    /\ Len(tasks) >= 2
    /\ tasks[Len(tasks)].description = refinements[Len(refinements)].description

\* C14 as stated: REFLECT sets needs_replan to true whenever it loops back to
\* PLAN, PLAN on re-entry then calls the planner and replaces tasks, and
\* needs_replan is false after every PLAN step.
C14_ReflectRequestsReplan ==
    [][/\ node = "reflect" /\ node' = "plan" => needs_replan' = Some(TRUE)
       /\ node = "plan" /\ iteration_count >= 1 =>
             planner_response' # planner_response \/ node' = RAISED
       /\ node = "plan" => GetOr(needs_replan', FALSE) = FALSE]_vars

\* C14 amended: no step sets needs_replan to true. REFLECT leaves it
\* unchanged when it loops back to PLAN; PLAN re-entered with a non-empty
\* task list does not call the planner and leaves tasks unchanged; PLAN sets
\* needs_replan to false when it takes the planner's tasks, so it is false
\* (or absent) after every step.
C14_NeverReplans ==
    [][/\ GetOr(needs_replan', FALSE) = FALSE
       /\ node = "reflect" => needs_replan' = needs_replan
       /\ node = "plan" /\ tasks # <<>> =>
             /\ tasks' = tasks
             /\ planner_response' = planner_response
             /\ node' = "execute"
       /\ node = "plan" /\ tasks = <<>> /\ node' = "execute" =>
             needs_replan' = Some(FALSE)]_vars

\* C14 witness: PLAN has just been re-entered after a refining REFLECT step
\* and handed the refined tasks over to execute
C14_Witness ==
    /\ node = "execute"
    /\ iteration_count >= 1
    /\ needs_replan = Some(FALSE)
    /\ refinements # <<>>
    /\ \A i \in DOMAIN tasks : tasks[i].status = "pending"

\* C15: FINALIZE sets final_answer to the fixed apology message if and only
\* if no task has status completed at that moment (the LLM is then not
\* asked); when at least one task is completed, final_answer is the text the
\* one LLM synthesis call returned, verbatim. FINALIZE changes no task and is
\* followed by DONE.
C15_FinalizeAnswer ==
    [][node = "finalize" =>
         /\ (final_answer' = Some(ApologyMessage))
               <=> (\A i \in DOMAIN tasks : tasks[i].status # "completed")
         /\ (\A i \in DOMAIN tasks : tasks[i].status # "completed")
               => synthesis_response' = None
         /\ (\E i \in DOMAIN tasks : tasks[i].status = "completed")
               => synthesis_response' # None /\ final_answer' = synthesis_response'
         /\ tasks' = tasks
         /\ node' = END]_vars

\* C15 witness: FINALIZE ran with a failed and no completed task and gave
\* the apology
C15_Witness ==
    /\ node = END
    /\ final_answer = Some(ApologyMessage)
    /\ synthesis_response = None
    /\ \E i \in DOMAIN tasks : tasks[i].status = "failed"

\* C15, second case: FINALIZE ran with a completed and a failed task and the
\* answer is the LLM's text, here its error text, verbatim
C15_SynthesisReached ==
    /\ node = END
    /\ synthesis_response = Some("Error: timed out")
    /\ final_answer = synthesis_response
    /\ \E i \in DOMAIN tasks : tasks[i].status = "completed"
    /\ \E i \in DOMAIN tasks : tasks[i].status = "failed"

\* C16: final_answer is null in every state before the terminal state and
\* non-null in the terminal state; it is written once per run and only by
\* FINALIZE (PLAN, EXECUTE and REFLECT never write it), and no step changes
\* original_query.
C16_FinalAnswerOnlyAtEnd ==
    /\ [](final_answer # None <=> node = END)
    /\ [][/\ final_answer' # final_answer => node = "finalize"
          /\ final_answer # None => final_answer' = final_answer
          /\ original_query' = original_query]_vars

\* C16 witness: the terminal state after at least one refinement cycle, with
\* the answer written
C16_Witness ==
    /\ node = END
    /\ final_answer # None
    /\ iteration_count >= 1

\* C17: finalize is idempotent on a terminal state: applying FINALIZE again
\* to the state it produced, with no task mutated in between, leaves
\* final_answer as the first application set it, with a completed task (LLM
\* synthesis) and without one (apology message).
C17_FinalizeIdempotent ==
    [][node = END /\ tasks' = tasks => final_answer' = final_answer]_vars

\* C18: should_refine follows this decision table for every state: false if
\* iteration_count >= 3; else true if a failed task exists and
\* iteration_count < 2; else true if there is no completed and no pending
\* task and iteration_count < 1; else, if a completed task exists, true
\* exactly when the adequacy judgment is negative (the answer holds "no" in
\* any case of letters); else false. It does not modify the state.
C18_DecisionTable ==
    [][node = "unit" =>
         LET some(status) == \E i \in DOMAIN tasks : tasks[i].status = status
             negative == \E k \in 1..(Len(adequacy_response'[1]) - 1) :
                            SubSeq(adequacy_response'[1], k, k + 1)
                               \in {"no", "No", "nO", "NO"}
         IN  /\ needs_refinement' = Some(
                  IF iteration_count >= 3 THEN FALSE
                  ELSE IF some("failed") /\ iteration_count < 2 THEN TRUE
                  ELSE IF ~some("completed") /\ ~some("pending") /\ iteration_count < 1
                       THEN TRUE
                  ELSE IF some("completed") THEN negative
                  ELSE FALSE)
             /\ UNCHANGED <<original_query, tasks, iteration_count, final_answer,
                            should_continue, needs_replan>>]_vars

\* C18 witness: with a completed and a failed task at iteration_count 2 the
\* failed-task rule no longer applies and the LLM's "No" decides for refining
C18_Witness ==
    /\ node = "unit_done"
    /\ iteration_count = 2
    /\ \E i \in DOMAIN tasks : tasks[i].status = "completed"
    /\ \E i \in DOMAIN tasks : tasks[i].status = "failed"
    /\ adequacy_response = Some("No")
    /\ needs_refinement = Some(TRUE)

\* C19 as stated (scenario D): while every execution of every task has
\* failed, REFLECT refines in three consecutive cycles; only when entered
\* with iteration_count = 3 does it set should_continue to false, and
\* FINALIZE then gives the apology answer.
C19_ThreeCyclesThenApology ==
    [][~any_success =>
         /\ node = "reflect" /\ iteration_count < 3 =>
               needs_refinement' = Some(TRUE) /\ iteration_count' = iteration_count + 1
         /\ node = "reflect" /\ should_continue' = FALSE => iteration_count = 3
         /\ node = "finalize" =>
               iteration_count = 3 /\ final_answer' = Some(ApologyMessage)]_vars

\* C19 amended: while every execution of every task has failed, REFLECT
\* refines in two consecutive cycles, bringing iteration_count to 2; when it
\* is entered with iteration_count = 2 it sets should_continue to false (the
\* failed-task rule needs iteration_count < 2 and no completed task is there
\* to ask the LLM about), and FINALIZE then gives the apology answer.
C19_TwoCyclesThenApology ==
    [][~any_success =>
         /\ node = "reflect" /\ iteration_count < 2 =>
               /\ needs_refinement' = Some(TRUE)
               /\ iteration_count' = iteration_count + 1
               /\ node' = "plan"
         /\ node = "reflect" /\ iteration_count = 2 =>
               /\ needs_refinement' = Some(FALSE)
               /\ should_continue' = FALSE
               /\ node' = "finalize"
         /\ node = "reflect" => iteration_count <= 2
         /\ node = "finalize" =>
               iteration_count = 2 /\ final_answer' = Some(ApologyMessage)]_vars

\* C19 witness: a run in which every execution failed has ended with the
\* apology after two refinement cycles and three executions of a task
C19_Witness ==
    /\ node = END
    /\ ~any_success
    /\ iteration_count = 2
    /\ final_answer = Some(ApologyMessage)
    /\ \E i \in DOMAIN tasks : tasks[i].status = "failed" /\ exec_count[i] = 3

\* C20: retry bound: in any run no task is executed more than 4 times in
\* total (its first execution plus at most one retry per reflection cycle,
\* with at most 3 cycles), and a task is re-executed only after a REFLECT
\* step reset it to pending.
C20_RetryBound ==
    /\ [](\A i \in DOMAIN exec_count :
            exec_count[i] <= 4 /\ exec_count[i] <= iteration_count + 1)
    /\ [][/\ \A i \in DOMAIN tasks :
               tasks[i].status # "pending" /\ tasks'[i].status = "pending"
                  => node = "reflect"
          /\ \A i \in DOMAIN exec_count :
               exec_count'[i] # exec_count[i] =>
                  /\ node = "execute"
                  /\ tasks[i].status = "pending"
                  /\ tasks'[i].status # "pending"
                  /\ exec_count'[i] = exec_count[i] + 1]_vars

\* C20 witness: a task has been executed four times, once after the plan and
\* once after each of three refinement cycles
C20_Witness ==
    /\ iteration_count = 3
    /\ \E i \in DOMAIN tasks : exec_count[i] = 4 /\ tasks[i].status = "failed"

-----------------------------------------------------------------------------
(* C21 .. C29 *)

\* the task is bound to a name create_workflow registered no tool under
Unresolved(task) == \A k \in DOMAIN RegisteredTools : RegisteredTools[k] # task.tool_used

\* some task bound to an unregistered name has been executed
ToolWasMissing ==
    \E i \in DOMAIN tasks : Unresolved(tasks[i]) /\ exec_count[i] >= 1

\* the run is at a node of the graph, whose function takes any state
Runnable == node \in {"plan", "execute", "reflect", "finalize"}

\* the position of a node on the way plan, execute, reflect, finalize, END
StageRank ==
    CASE node = "plan" -> 4
      [] node = "execute" -> 3
      [] node = "reflect" -> 2
      [] node = "finalize" -> 1
      [] OTHER -> 0

\* a bound on the steps the run can still take: the refinement cycles left
\* under the ceiling, then the pending tasks, then the stages of the cycle
StepsLeft ==
    1000 * (MaxRefinements - iteration_count)
       + 10 * Cardinality(WithStatus(tasks, "pending")) + StageRank

\* C21: a task whose tool_used does not resolve in the registry fails for
\* that task only: the EXECUTE step sets its status to failed with error
\* "Tool '<name>' not available" and no result, raises nothing, and the run
\* continues: a later pending task is executed on the following step and the
\* run still reaches FINALIZE and ends (from then on every state is the end or
\* at a node of the graph, never an aborted one, and every step lowers
\* StepsLeft, so the end is reached, through finalize).
C21_ToolNotFoundIsTaskLevel ==
    /\ [][node = "execute" =>
            \A i \in DOMAIN tasks :
               IsFirstPending(tasks, i) /\ Unresolved(tasks[i]) =>
                  /\ tasks'[i].status = "failed"
                  /\ tasks'[i].error
                        = Some("Tool '" \o tasks[i].tool_used \o "' not available")
                  /\ tasks'[i].result = None
                  /\ \A j \in DOMAIN tasks : j # i => tasks'[j] = tasks[j]
                  /\ node' # RAISED
                  /\ exception' = None
                  /\ HasPending(tasks') => node' = "execute"]_vars
    /\ [](ToolWasMissing => node = END \/ Runnable)
    /\ [][ToolWasMissing => StepsLeft' < StepsLeft]_vars

\* C21 witness: the run has ended with a task failed for its missing tool
\* and a task behind it in the list executed and completed
C21_Witness ==
    /\ node = END
    /\ \E i \in DOMAIN tasks :
         /\ Unresolved(tasks[i])
         /\ tasks[i].error = Some("Tool 'translate' not available")
         /\ \E j \in DOMAIN tasks : j > i /\ tasks[j].status = "completed"

\* should_refine_plan gets as far as asking the LLM for the adequacy judgment
AsksAdequacy(ts, count) ==
    /\ count < 3
    /\ ~(WithStatus(ts, "failed") # {} /\ count < 2)
    /\ ~(WithStatus(ts, "completed") = {} /\ WithStatus(ts, "pending") = {} /\ count < 1)
    /\ WithStatus(ts, "completed") # {}

\* an answer that is not a clean "yes" or "no"
Malformed(response) == lower(strip(response)) \notin {"yes", "no"}

\* C22: when the adequacy judgment fails or returns malformed text (anything
\* other than a clean "yes" or "no", the LLM client's "Error: ..." string
\* included), should_refine returns false and raises nothing, so REFLECT
\* proceeds to FINALIZE.
C22_MalformedJudgmentMeansNoRefine ==
    [][/\ node = "reflect"
       /\ AsksAdequacy(tasks, iteration_count)
       /\ Malformed(adequacy_response'[1])
       => /\ needs_refinement' = Some(FALSE)
          /\ should_continue' = FALSE
          /\ node' = "finalize"]_vars

\* C23: when PLAN replaces the task list with the planner's output, the
\* resulting tasks have ids exactly 1, 2, ..., n in list order and all have
\* status pending, for every planner response array, arrays with invalid
\* (dropped) entries included.
C23_PlannerIdsConsecutive ==
    [][node = "plan" /\ planner_response' # planner_response /\ node' # RAISED =>
         \A i \in DOMAIN tasks' :
            tasks'[i].id = i /\ tasks'[i].status = "pending"]_vars

\* the calls of a history that register the name
Registrations(log, name) ==
    {k \in DOMAIN log : log[k].op = "register_tool" /\ log[k].name = name}

\* the calls of a history that take the name out of the registry
Removals(log, name) ==
    {k \in DOMAIN log : log[k].op = "clear"
                          \/ (log[k].op = "remove_tool" /\ log[k].name = name)}

\* the registrations of the name that no later call has undone
Standing(log, name) ==
    {k \in Registrations(log, name) : \A m \in Removals(log, name) : m < k}

\* C24: after any sequence of register_tool, remove_tool and clear calls,
\* list_tools returns each currently registered name exactly once, in
\* registration order; get_tool(name) returns a tool exactly for the names
\* in list_tools, the one most recently registered under the name, and is
\* absent otherwise; remove_tool of an unregistered name returns false and
\* leaves the registry unchanged.
C24_Registry ==
    /\ [](LET names == list_tools(_tools)
              first(name) == CHOOSE k \in Standing(calls, name) :
                                \A m \in Standing(calls, name) : k <= m
              last(name) == CHOOSE k \in Standing(calls, name) :
                               \A m \in Standing(calls, name) : k >= m
          IN  /\ \A i, j \in DOMAIN names : i # j => names[i] # names[j]
              /\ Range(names) = {name \in RegistryNames : Standing(calls, name) # {}}
              /\ \A i, j \in DOMAIN names : i < j => first(names[i]) < first(names[j])
              /\ \A name \in RegistryNames :
                   registry_get_tool(_tools, name)
                      = IF name \in Range(names) THEN calls[last(name)].tool ELSE None)
    /\ [][\A name \in RegistryNames :
            /\ calls' # calls
            /\ calls'[Len(calls')].op = "remove_tool"
            /\ calls'[Len(calls')].name = name
            /\ name \notin Range(list_tools(_tools))
            => calls'[Len(calls')].result = Some(FALSE) /\ _tools' = _tools]_vars

\* C24 witness: a name registered, another registered, the first registered
\* again with another tool: it keeps its place and gives the new tool
C24_Witness ==
    /\ Len(calls) = 3
    /\ calls[3].op = "register_tool"
    /\ list_tools(_tools) = <<"web_search", "calculator">>
    /\ registry_get_tool(_tools, "web_search") = Some("tool_b")
    /\ calls[1].tool = Some("tool_a")

\* C24, second case: remove_tool of a name that is not registered returned
\* False beside a registered name
C24_RemoveUnregistered ==
    /\ Len(calls) = 2
    /\ calls[2].op = "remove_tool"
    /\ calls[2].result = Some(FALSE)
    /\ list_tools(_tools) = <<"weather">>

\* C25: completed is absorbing: once a task has status completed, no later
\* step of the run changes its status, description, result or error (no
\* modify resets it to pending, it is not executed again), for every planner
\* output and every refinement list.
C25_CompletedIsAbsorbing ==
    [][\A i \in DOMAIN tasks :
         tasks[i].status = "completed" =>
            /\ tasks'[i].status = "completed"
            /\ tasks'[i].description = tasks[i].description
            /\ tasks'[i].result = tasks[i].result
            /\ tasks'[i].error = tasks[i].error
            /\ exec_count'[i] = exec_count[i]]_vars

\* C26: after every REFLECT step that refines, no task has status failed:
\* every task that was failed on entry is pending, with its error cleared,
\* on exit.
C26_RefineLeavesNoFailedTask ==
    [][node = "reflect" /\ needs_refinement' = Some(TRUE) =>
         /\ \A i \in DOMAIN tasks' : tasks'[i].status # "failed"
         /\ \A i \in DOMAIN tasks :
              tasks[i].status = "failed" =>
                 tasks'[i].status = "pending" /\ tasks'[i].error = None]_vars

\* C27: the planner is invoked exactly once per run: PLAN calls it on entry,
\* and on every re-entry after REFLECT the task list is non-empty and
\* needs_replan is not true, so PLAN leaves the whole state unchanged; the
\* tasks executed afterwards are exactly the ones REFLECT modified or added
\* (the tasks pending after a REFLECT step are the changed and the new ones,
\* and only pending tasks are executed).
C27_PlannerInvokedOnce ==
    [][/\ planner_response' # planner_response =>
             node = "plan" /\ iteration_count = 0 /\ planner_response = None
       /\ node = "plan" /\ iteration_count = 0 => planner_response' # None
       /\ node = "plan" /\ iteration_count >= 1 =>
             /\ tasks # <<>>
             /\ GetOr(needs_replan, FALSE) = FALSE
             /\ UNCHANGED <<original_query, tasks, iteration_count, final_answer,
                            should_continue, needs_replan>>
             /\ node' = "execute"
       /\ node = "reflect" =>
             \A i \in DOMAIN tasks' :
                tasks'[i].status = "pending"
                   <=> (i \notin DOMAIN tasks \/ tasks'[i] # tasks[i])
       /\ node = "execute" =>
             \A i \in DOMAIN tasks :
                exec_count'[i] # exec_count[i] => tasks[i].status = "pending"]_vars

\* C27 witness: the run has ended after one refinement cycle in which a
\* modified task was executed a second time and completed, with the one
\* planner response still recorded
C27_Witness ==
    /\ node = END
    /\ iteration_count = 1
    /\ planner_response # None
    /\ \E i \in DOMAIN tasks : exec_count[i] = 2 /\ tasks[i].status = "completed"

\* C28: a task's tool_used never changes after the task is created, so a
\* task bound to a tool name that is not in the registry is failed after
\* each of its executions and never reaches status completed, however many
\* modify refinements are applied to it.
C28_ToolBindingIsFixed ==
    /\ [][\A i \in DOMAIN tasks : tasks'[i].tool_used = tasks[i].tool_used]_vars
    /\ [][node = "execute" =>
            \A i \in DOMAIN tasks :
               exec_count'[i] # exec_count[i] /\ Unresolved(tasks[i]) =>
                  tasks'[i].status = "failed"]_vars
    /\ [](\A i \in DOMAIN tasks :
            Unresolved(tasks[i]) =>
               tasks[i].status # "completed" /\ tasks[i].result = None)

\* C28 witness: a task bound to an unregistered name has been modified twice
\* and executed three times, and is failed at the end of the run
C28_Witness ==
    /\ node = END
    /\ \E i \in DOMAIN tasks :
         /\ Unresolved(tasks[i])
         /\ exec_count[i] = 3
         /\ tasks[i].description = "simpler d"
         /\ tasks[i].status = "failed"

\* the length of the task list the first PLAN step returned
PlannedLength == Len(plan(original_query, planner_response[1]))

\* C29: the task list grows by at most 2 tasks over a whole run: a REFLECT
\* step appends at most one task, and only when no task is completed and
\* iteration_count < 2, so the length never exceeds the length after the
\* first PLAN step plus 2.
C29_GrowsByAtMostTwo ==
    /\ [](tasks # <<>> => Len(tasks) <= PlannedLength + 2)
    /\ [][tasks # <<>> /\ Len(tasks') # Len(tasks) =>
            /\ node = "reflect"
            /\ Len(tasks') = Len(tasks) + 1
            /\ \A i \in DOMAIN tasks : tasks[i].status # "completed"
            /\ iteration_count < 2]_vars

\* C29 witness: two REFLECT steps have each appended a task
C29_Witness ==
    /\ tasks # <<>>
    /\ Len(tasks) = PlannedLength + 2
    /\ iteration_count = 2

====
